---- MODULE Spec2Model ----
(***************************************************************************)
(* Model of `chr pick` (src/src/main.rs).  One invocation of pick is a     *)
(* sequential pipeline of external git calls and pure string processing.   *)
(* Strings are sequences of one-character strings so that split, trim,     *)
(* starts_with, lines and format are computed as the code computes them.   *)
(***************************************************************************)
EXTENDS Integers, Sequences, FiniteSets, TLC

\* ------------------------------------------------------------------ bounds
MaxCommits == 3        \* commits exclusive to the production branch
MaxCount   == 2        \* largest --count value tried

\* ------------------------------------------------------- program constants
DEFAULT_PREFIX     == <<"Z", "U", "P", "-">>
DEFAULT_SUFFIX_PRD == <<"-", "p", "r", "d">>
DEFAULT_SUFFIX_HML == <<"-", "h", "m", "l">>
LatestWindow       == 100

\* ----------------------------------------------------------- string helpers
IsSpace(c) == c \in {" ", "\n", "\t", "\r"}

RECURSIVE TrimStart(_)
TrimStart(s) ==
    IF s # <<>> /\ IsSpace(Head(s)) THEN TrimStart(Tail(s)) ELSE s

RECURSIVE TrimEnd(_)
TrimEnd(s) ==
    IF s # <<>> /\ IsSpace(s[Len(s)]) THEN TrimEnd(SubSeq(s, 1, Len(s) - 1)) ELSE s

Trim(s) == TrimEnd(TrimStart(s))

\* str::split(d): always count(d)+1 pieces, "" splits into one empty piece.
\* cur is the piece being read.
RECURSIVE SplitFrom(_, _, _)
SplitFrom(s, d, cur) ==
    IF s = <<>> THEN <<cur>>
    ELSE IF Head(s) = d THEN <<cur>> \o SplitFrom(Tail(s), d, <<>>)
    ELSE SplitFrom(Tail(s), d, Append(cur, Head(s)))

Split(s, d) == SplitFrom(s, d, <<>>)

StartsWith(s, p) == Len(p) <= Len(s) /\ SubSeq(s, 1, Len(p)) = p

StripCR(l) ==
    IF l # <<>> /\ l[Len(l)] = "\r" THEN SubSeq(l, 1, Len(l) - 1) ELSE l

\* str::lines(): split on "\n", the final line ending is optional.
Lines(s) ==
    LET p == Split(s, "\n")
        q == IF p[Len(p)] = <<>> THEN SubSeq(p, 1, Len(p) - 1) ELSE p
    IN  [i \in 1..Len(q) |-> StripCR(q[i])]

RECURSIVE Concat(_)
Concat(ss) == IF ss = <<>> THEN <<>> ELSE Head(ss) \o Concat(Tail(ss))

Reverse(s) == [i \in 1..Len(s) |-> s[Len(s) + 1 - i]]

Min(a, b) == IF a < b THEN a ELSE b

\* Option<String>: None is <<>>, Some(v) is <<v>>.
None == <<>>
Some(v) == <<v>>
unwrap_or(o, d) == IF o = None THEN d ELSE o[1]

\* ------------------------------------------------------------ input domains
\* ~/.config/chr.toml as load_config may find it: absent, or with some fields set.
Configs ==
    { [prefix |-> None, suffix_prd |-> None, suffix_hml |-> None],
      [prefix |-> Some(<<"Z", "U", "P">>), suffix_prd |-> None, suffix_hml |-> None],
      [prefix |-> Some(<<"A", "-", "B", "-">>), suffix_prd |-> None, suffix_hml |-> None],
      [prefix |-> None, suffix_prd |-> Some(<<"p">>), suffix_hml |-> None],
      [prefix |-> Some(<<"X", "-">>), suffix_prd |-> Some(<<"-", "r">>),
       suffix_hml |-> Some(<<"-", "q">>)] }

Tickets == { <<"7">>, <<"7", "-", "8">> }

\* Branch names `git branch --show-current` may print (without the newline):
\* production branches of every scheme, a homologation branch, a branch
\* outside the convention, and nothing (detached HEAD).
BranchNames ==
    { unwrap_or(c.prefix, DEFAULT_PREFIX) \o t \o unwrap_or(c.suffix_prd, DEFAULT_SUFFIX_PRD) :
          c \in Configs, t \in Tickets }
    \cup { DEFAULT_PREFIX \o <<"7">> \o DEFAULT_SUFFIX_HML,
           <<"m", "a", "i", "n">>,
           <<>> }

UserName == <<"a", "l">>
Authors  == << <<"a", "l">>, <<"b", "o">>, <<" ", "a", "l">>, <<"A", "l">> >>
Subject  == <<"s">>
Digits   == <<"1", "2", "3", "4", "5", "6", "7", "8", "9">>

\* Abbreviated hash of the i-th commit exclusive to the production branch
\* (1 = oldest).
HashOf(i) == <<"c", Digits[i]>>

\* Shapes of one line of `git log --format=%h|%an|%s` output: a record with
\* one of the authors, or a line without the three fields.
Shapes == 1..(Len(Authors) + 1)
LogLine(i, sh) ==
    IF sh <= Len(Authors)
    THEN HashOf(i) \o <<"|">> \o Authors[sh] \o <<"|">> \o Subject
    ELSE HashOf(i) \o <<"|">> \o Authors[1]

\* stdout of `git log ^hml prd -<n>`: the newest n exclusive commits, newest
\* first, one line each.
LogStdout(r, n) ==
    LET k == Min(n, Len(r))
    IN  Concat([j \in 1..k |-> r[Len(r) + 1 - j] \o <<"\n">>])

GREEN == <<"ESC[32m">>
RED   == <<"ESC[31m">>
RESET == <<"ESC[0m">>
SEP   == <<" ", "|", " ">>

\* ------------------------------------------------------------------- state
VARIABLES
    args,           \* PickArgs {count, latest, show}
    pc,             \* position of pick
    config,         \* Config returned by load_config
    branch_name, hml_branch, prd_branch,
    repo,           \* log lines of the exclusive commits, oldest first (git's side)
    output,         \* stdout of git log
    current_user,
    final_lines,
    printed,        \* commit lines written to stdout
    messages,       \* informational messages written to stdout
    commit_hashes,
    answer,         \* reply to the confirmation prompt
    range,          \* argument of git rev-list
    replayed,       \* identifiers piped into git cherry-pick --stdin
    calls,          \* external invocations so far, with how each ended
    result,         \* "none" while running, then "Ok" or "Err"
    error           \* context of the error returned

vars == <<args, pc, config, branch_name, hml_branch, prd_branch, repo, output,
          current_user, final_lines, printed, messages, commit_hashes, answer,
          range, replayed, calls, result, error>>

prefix     == unwrap_or(config.prefix, DEFAULT_PREFIX)
suffix_prd == unwrap_or(config.suffix_prd, DEFAULT_SUFFIX_PRD)
suffix_hml == unwrap_or(config.suffix_hml, DEFAULT_SUFFIX_HML)

Call(cmd, st) == calls' = Append(calls, [cmd |-> cmd, st |-> st])

Bail(msg) == pc' = "failed" /\ result' = "Err" /\ error' = msg
ReturnOk  == pc' = "done" /\ result' = "Ok" /\ error' = error
Goto(l)   == pc' = l /\ result' = result /\ error' = error

Init ==
    /\ args \in [count : 1..MaxCount, latest : BOOLEAN, show : BOOLEAN]
    /\ pc = "load_config"
    /\ config = [prefix |-> None, suffix_prd |-> None, suffix_hml |-> None]
    /\ branch_name = <<>> /\ hml_branch = <<>> /\ prd_branch = <<>>
    /\ repo = <<>> /\ output = <<>> /\ current_user = <<>>
    /\ final_lines = <<>> /\ printed = <<>> /\ messages = <<>>
    /\ commit_hashes = <<>> /\ answer = "none"
    /\ range = <<>> /\ replayed = <<>> /\ calls = <<>>
    /\ result = "none" /\ error = ""

\* ----------------------------------------------------------------- actions
LoadConfig ==
    /\ pc = "load_config"
    /\ config' \in Configs
    /\ Goto("current_branch")
    /\ UNCHANGED <<args, branch_name, hml_branch, prd_branch, repo, output,
                   current_user, final_lines, printed, messages, commit_hashes,
                   answer, range, replayed, calls>>

\* The two format checks of lines 111-120: the error raised, "" when none.
BranchFormatError_NoPrefixCheck(name, pfx) ==
    IF Len(Split(name, "-")) < 2 THEN "doesn't match the expected format" ELSE ""

BranchFormatError(name, pfx) ==
    IF Len(Split(name, "-")) < 2
    THEN "doesn't match the expected format"
    ELSE IF ~StartsWith(name, pfx)
    THEN "doesn't start with the expected prefix"
    ELSE ""

\* parts.get(1), line 122.
CardNumber_First(parts) == parts[1]

CardNumber(parts) == parts[2]

\* Lines 111-127 on the trimmed stdout of git branch --show-current.
Resolve(name) ==
    LET parts == Split(name, "-")
        err   == BranchFormatError(name, prefix)
    IN  /\ branch_name' = name
        /\ IF err # ""
           THEN /\ Bail(err)
                /\ UNCHANGED <<hml_branch, prd_branch>>
           ELSE IF Len(parts) < 2
           THEN /\ Bail("Could not extract card number")
                /\ UNCHANGED <<hml_branch, prd_branch>>
           ELSE LET card_number == CardNumber(parts)
                IN  /\ hml_branch' = prefix \o card_number \o suffix_hml
                    /\ prd_branch' = prefix \o card_number \o suffix_prd
                    /\ Goto("prd_exists")

CurrentBranch ==
    /\ pc = "current_branch"
    /\ \E st \in {"ok", "nonzero", "nospawn", "badutf8"} :
          /\ Call("branch --show-current", st)
          /\ CASE st = "nospawn" ->
                    /\ Bail("Failed to get current branch name")
                    /\ UNCHANGED <<branch_name, hml_branch, prd_branch>>
               [] st = "badutf8" ->
                    /\ Bail("Failed to parse branch name")
                    /\ UNCHANGED <<branch_name, hml_branch, prd_branch>>
               [] st = "nonzero" -> Resolve(Trim(<<>>))
               [] st = "ok" -> \E b \in BranchNames : Resolve(Trim(b \o <<"\n">>))
    /\ UNCHANGED <<args, config, repo, output, current_user, final_lines,
                   printed, messages, commit_hashes, answer, range, replayed>>

\* The branch_exists closure, lines 129-137, applied at 139 and 143.
BranchExists(cmd, missing, next) ==
    /\ \E st \in {"ok", "nonzero", "nospawn"} :
          /\ Call(cmd, st)
          /\ CASE st = "nospawn" -> Bail("Failed to check if branch exists")
               [] st = "nonzero" -> Bail(missing)
               [] st = "ok" -> Goto(next)
    /\ UNCHANGED <<args, config, branch_name, hml_branch, prd_branch, repo,
                   output, current_user, final_lines, printed, messages,
                   commit_hashes, answer, range, replayed>>

PrdExists ==
    /\ pc = "prd_exists"
    /\ BranchExists("rev-parse prd", "Production branch does not exist", "hml_exists")

HmlExists ==
    /\ pc = "hml_exists"
    /\ BranchExists("rev-parse hml", "Homologation branch does not exist", "git_log")

commit_count == IF args.latest THEN LatestWindow ELSE args.count

GitLog ==
    /\ pc = "git_log"
    /\ \E st \in {"ok", "nonzero", "nospawn", "badutf8"} :
          /\ Call("log", st)
          /\ CASE st = "nospawn" ->
                    Bail("Failed to execute git log") /\ UNCHANGED <<repo, output>>
               [] st = "nonzero" ->
                    Bail("Failed to get commit logs") /\ UNCHANGED <<repo, output>>
               [] st = "badutf8" ->
                    Bail("Failed to parse git log output") /\ UNCHANGED <<repo, output>>
               [] st = "ok" ->
                    \E n \in 0..MaxCommits : \E sh \in [1..n -> Shapes] :
                        LET r == [i \in 1..n |-> LogLine(i, sh[i])]
                        IN  /\ repo' = r
                            /\ output' = LogStdout(r, commit_count)
                            /\ Goto("get_current_user")
    /\ UNCHANGED <<args, config, branch_name, hml_branch, prd_branch,
                   current_user, final_lines, printed, messages, commit_hashes,
                   answer, range, replayed>>

\* get_current_user, lines 268-281: the exit status is not looked at.
GetCurrentUser ==
    /\ pc = "get_current_user"
    /\ \E st \in {"ok", "nonzero", "nospawn", "badutf8"} :
          /\ Call("config user.name", st)
          /\ CASE st = "nospawn" ->
                    Bail("Failed to get git user name") /\ UNCHANGED current_user
               [] st = "badutf8" ->
                    Bail("Failed to parse git user name") /\ UNCHANGED current_user
               [] st = "nonzero" ->
                    current_user' = Trim(<<>>) /\ Goto("select")
               [] st = "ok" ->
                    current_user' = Trim(UserName \o <<"\n">>) /\ Goto("select")
    /\ UNCHANGED <<args, config, branch_name, hml_branch, prd_branch, repo,
                   output, final_lines, printed, messages, commit_hashes,
                   answer, range, replayed>>

\* The closure of the --latest filter, lines 170-173.
KeepLine_NoTrim(line, user) ==
    LET parts == Split(line, "|")
    IN  Len(parts) >= 3 /\ parts[2] = user

KeepLine(line, user) ==
    LET parts == Split(line, "|")
    IN  Len(parts) >= 3 /\ Trim(parts[2]) = user

FilterLines(out, latest, user) ==
    IF latest
    THEN SelectSeq(Lines(out), LAMBDA line : KeepLine(line, user))
    ELSE Lines(out)

\* Lines 180-184.
EmptyMessage_Swapped(latest) ==
    IF latest THEN "No commits found between" ELSE "No commits found for user"

EmptyMessage(latest) ==
    IF latest THEN "No commits found for user" ELSE "No commits found between"

Select ==
    /\ pc = "select"
    /\ LET lines == FilterLines(output, args.latest, current_user)
       IN  /\ final_lines' = lines
           /\ IF lines = <<>>
              THEN /\ messages' = Append(messages, EmptyMessage(args.latest))
                   /\ ReturnOk
              ELSE /\ messages' = messages
                   /\ Goto("present")
    /\ UNCHANGED <<args, config, branch_name, hml_branch, prd_branch, repo,
                   output, current_user, printed, commit_hashes, answer, range,
                   replayed, calls>>

\* Body of the display loop, lines 189-202.
Render(line, user) ==
    LET parts == Split(line, "|")
    IN  IF Len(parts) < 3
        THEN line
        ELSE LET commit  == Trim(parts[1])
                 author  == Trim(parts[2])
                 message == Trim(parts[3])
                 colored_author == IF author = user
                                   THEN GREEN \o author \o RESET
                                   ELSE RED \o author \o RESET
             IN  commit \o SEP \o colored_author \o SEP \o message

\* The filter_map of lines 205-215.
RECURSIVE CommitHashes(_)
CommitHashes(ls) ==
    IF ls = <<>> THEN <<>>
    ELSE LET parts == Split(Head(ls), "|")
         IN  (IF Len(parts) >= 3 THEN <<Trim(parts[1])>> ELSE <<>>)
             \o CommitHashes(Tail(ls))

\* Lines 217-224: where pick goes once the lines are printed.
AfterPresent_IgnoreShow(hashes, show) ==
    IF hashes = <<>> THEN "no_hashes" ELSE "confirm"

AfterPresent(hashes, show) ==
    IF hashes = <<>> THEN "no_hashes"
    ELSE IF show THEN "show"
    ELSE "confirm"

Present ==
    /\ pc = "present"
    /\ printed' = [i \in 1..Len(final_lines) |-> Render(final_lines[i], current_user)]
    /\ commit_hashes' = CommitHashes(final_lines)
    /\ LET to == AfterPresent(CommitHashes(final_lines), args.show)
       IN  CASE to = "no_hashes" ->
                  /\ messages' = Append(messages, "No valid commit hashes found in the output")
                  /\ ReturnOk
             [] to = "show" -> messages' = messages /\ ReturnOk
             [] to = "confirm" -> messages' = messages /\ Goto("confirm")
    /\ UNCHANGED <<args, config, branch_name, hml_branch, prd_branch, repo,
                   output, current_user, final_lines, answer, range, replayed,
                   calls>>

Confirm ==
    /\ pc = "confirm"
    /\ \E a \in {"yes", "no", "error"} :
          /\ answer' = a
          /\ CASE a = "error" -> Bail("Failed to get user confirmation")
               [] a = "no" -> ReturnOk
               [] a = "yes" -> Goto("rev_list")
    /\ UNCHANGED <<args, config, branch_name, hml_branch, prd_branch, repo,
                   output, current_user, final_lines, printed, messages,
                   commit_hashes, range, replayed, calls>>

\* Lines 232-238.
Range_Swapped(hashes) ==
    LET oldest_commit == hashes[1]
        newest_commit == hashes[Len(hashes)]
    IN  oldest_commit \o <<"^", ".", ".">> \o newest_commit

Range(hashes) ==
    LET oldest_commit == hashes[Len(hashes)]
        newest_commit == hashes[1]
    IN  oldest_commit \o <<"^", ".", ".">> \o newest_commit

\* git's side of `rev-list --reverse <a>^..<b>` on the linear history of
\* repo: the identifiers from a up to b, oldest first; <<>> when a name does
\* not resolve.
CommitOf(r, h) ==
    IF \E i \in 1..Len(r) : HashOf(i) = h
    THEN CHOOSE i \in 1..Len(r) : HashOf(i) = h
    ELSE 0

RevListReverse(r, rng) ==
    LET p  == Split(rng, "^")
        lo == CommitOf(r, p[1])
        hi == IF Len(p) = 2 THEN CommitOf(r, SubSeq(p[2], 3, Len(p[2]))) ELSE 0
    IN  IF lo = 0 \/ hi = 0 \/ lo > hi
        THEN <<>>
        ELSE [k \in 1..(hi - lo + 1) |-> HashOf(lo + k - 1)]

RevList ==
    /\ pc = "rev_list"
    /\ range' = Range(commit_hashes)
    /\ \E st \in {"ok", "nonzero", "nospawn"} :
          /\ Call("rev-list --reverse", st)
          /\ CASE st = "nospawn" ->
                    Bail("Failed to execute git rev-list") /\ replayed' = replayed
               [] st = "nonzero" ->
                    replayed' = <<>> /\ Goto("cherry_pick")
               [] st = "ok" ->
                    replayed' = RevListReverse(repo, Range(commit_hashes)) /\ Goto("cherry_pick")
    /\ UNCHANGED <<args, config, branch_name, hml_branch, prd_branch, repo,
                   output, current_user, final_lines, printed, messages,
                   commit_hashes, answer>>

\* Lines 258-262.
CherryPickMessage_Swapped(success) ==
    IF success
    THEN "Cherry-pick operation failed. You may need to resolve conflicts."
    ELSE "Successfully cherry-picked commits"

CherryPickMessage(success) ==
    IF success
    THEN "Successfully cherry-picked commits"
    ELSE "Cherry-pick operation failed. You may need to resolve conflicts."

\* Lines 251-265; git cherry-pick exits non-zero on an empty commit set.
CherryPick ==
    /\ pc = "cherry_pick"
    /\ \E st \in {"ok", "nonzero", "nospawn"} :
          /\ st = "ok" => replayed # <<>>
          /\ Call("cherry-pick --stdin", st)
          /\ CASE st = "nospawn" ->
                    Bail("Failed to execute git cherry-pick") /\ messages' = messages
               [] OTHER ->
                    /\ messages' = Append(messages, CherryPickMessage(st = "ok"))
                    /\ ReturnOk
    /\ UNCHANGED <<args, config, branch_name, hml_branch, prd_branch, repo,
                   output, current_user, final_lines, printed, commit_hashes,
                   answer, range, replayed>>

Next ==
    \/ LoadConfig
    \/ CurrentBranch
    \/ PrdExists
    \/ HmlExists
    \/ GitLog
    \/ GetCurrentUser
    \/ Select
    \/ Present
    \/ Confirm
    \/ RevList
    \/ CherryPick

Spec == Init /\ [][Next]_vars

\* ------------------------------------------------------ vocabulary of claims
Issued(cmd) == \E i \in 1..Len(calls) : calls[i].cmd = cmd
Ended(cmd, st) == \E i \in 1..Len(calls) : calls[i].cmd = cmd /\ calls[i].st = st

\* The branch name has been read; the selection has been computed.
BranchRead == calls # <<>> /\ calls[1].st \in {"ok", "nonzero"}
SelectRan  ==
    /\ Ended("config user.name", "ok") \/ Ended("config user.name", "nonzero")
    /\ pc # "select"

\* The lines git log printed, newest first, as git holds them.
RawLines ==
    [j \in 1..Min(commit_count, Len(repo)) |-> repo[Len(repo) + 1 - j]]
RawCommit(j) == HashOf(Len(repo) + 1 - j)

Fields(line)     == Split(line, "|")
WellFormed(line) == Len(Fields(line)) >= 3
IsSubseqOf(a, b) ==
    \E f \in [1..Len(a) -> 1..Len(b)] :
        /\ \A i \in 1..Len(a) : a[i] = b[f[i]]
        /\ \A i, j \in 1..Len(a) : i < j => f[i] < f[j]

Phase ==
    CASE pc \in {"load_config", "current_branch", "prd_exists", "hml_exists"} -> "Resolving"
      [] pc \in {"git_log", "get_current_user", "select"} -> "Selecting"
      [] pc = "present" -> "Presenting"
      [] pc = "confirm" -> "AwaitingConfirmation"
      [] pc \in {"rev_list", "cherry_pick"} -> "Applying"
      [] pc = "done" -> "Done"
      [] pc = "failed" -> "Failed"

PhaseRank(ph) ==
    CASE ph = "Resolving" -> 1
      [] ph = "Selecting" -> 2
      [] ph = "Presenting" -> 3
      [] ph = "AwaitingConfirmation" -> 4
      [] ph = "Applying" -> 5
      [] ph \in {"Done", "Failed"} -> 6

ConflictMessage == "Cherry-pick operation failed. You may need to resolve conflicts."

\* ------------------------------------------------------------------ claims

\* C1: whenever the batch cherry-pick runs on an expanded range, the commits
\* handed to it are exactly the displayed selection in reverse order, none
\* added and none missing.
C1_ReplayIsReversedSelection ==
    (Issued("cherry-pick --stdin") /\ Ended("rev-list --reverse", "ok"))
        => replayed = Reverse(commit_hashes)

\* C2: the range expanded is <oldest>^..<newest>, oldest being the hash of the
\* last hash-bearing record of the newest-first selection and newest that of
\* the first; the identifiers fed to cherry-pick run from oldest to newest,
\* every older commit before every newer one.
C2_RangeAndOrder ==
    Issued("rev-list --reverse") =>
        LET sel    == SelectSeq(final_lines, WellFormed)
            oldest == Trim(Fields(sel[Len(sel)])[1])
            newest == Trim(Fields(sel[1])[1])
        IN  /\ sel # <<>>
            /\ range = oldest \o <<"^", ".", ".">> \o newest
            /\ \A i, j \in 1..Len(replayed) :
                   i < j => CommitOf(repo, replayed[i]) < CommitOf(repo, replayed[j])
            /\ (Issued("cherry-pick --stdin") /\ Ended("rev-list --reverse", "ok"))
                   => /\ replayed # <<>>
                      /\ replayed[1] = oldest
                      /\ replayed[Len(replayed)] = newest

C2_Witness ==
    /\ Issued("cherry-pick --stdin")
    /\ Len(commit_hashes) >= 2
    /\ Len(replayed) >= 2

\* C3: rev-list and cherry-pick are issued only with a hash-bearing
\* selection, without --show and after a yes to the prompt; with --show, a no,
\* or no hash-bearing record, pick ends successfully having issued neither.
C3_ApplyOnlyWhenConfirmed ==
    /\ (Issued("rev-list --reverse") \/ Issued("cherry-pick --stdin"))
           => /\ \E i \in 1..Len(final_lines) : WellFormed(final_lines[i])
              /\ ~args.show
              /\ answer = "yes"
    /\ ( /\ SelectRan
         /\ pc \in {"done", "failed"}
         /\ \/ args.show
            \/ answer = "no"
            \/ \A i \in 1..Len(final_lines) : ~WellFormed(final_lines[i]) )
           => /\ result = "Ok"
              /\ pc = "done"
              /\ ~Issued("rev-list --reverse")
              /\ ~Issued("cherry-pick --stdin")

C3_Witness ==
    /\ Issued("cherry-pick --stdin")
    /\ answer = "yes"
    /\ ~args.show
    /\ commit_hashes # <<>>

\* C4 as stated: under --latest a record is retained iff its author field is
\* character for character the filter value, with no trimming; without
\* --latest the selection is exactly the raw log lines.
C4_ExactAuthorMatch ==
    SelectRan =>
        final_lines =
            IF args.latest
            THEN SelectSeq(RawLines,
                     LAMBDA l : WellFormed(l) /\ Fields(l)[2] = current_user)
            ELSE RawLines

\* C4 amended: under --latest the selection is the subsequence, in the
\* original newest-first order, of the raw log lines that have at least three
\* fields and whose author field, once leading and trailing whitespace is
\* trimmed, equals the filter value (case-sensitive); without --latest it is
\* exactly the raw log lines; nothing absent from the raw log is selected.
C4_TrimmedAuthorMatch ==
    SelectRan =>
        /\ final_lines =
               IF args.latest
               THEN SelectSeq(RawLines,
                        LAMBDA l : WellFormed(l) /\ Trim(Fields(l)[2]) = current_user)
               ELSE RawLines
        /\ IsSubseqOf(final_lines, RawLines)

C4_Witness ==
    /\ SelectRan
    /\ args.latest
    /\ Len(final_lines) >= 2
    /\ Len(final_lines) < Len(RawLines)
    /\ \E i \in 1..Len(final_lines) : Fields(final_lines[i])[2] # current_user

\* C5 as stated: for every scheme and ticket t, on branch
\* prefix + t + suffix_prd the resolver derives production =
\* prefix + t + suffix_prd and homologation = prefix + t + suffix_hml.
C5_ResolveAnyScheme ==
    \A t \in Tickets :
        (BranchRead /\ branch_name = prefix \o t \o suffix_prd)
            => /\ prd_branch = prefix \o t \o suffix_prd
               /\ hml_branch = prefix \o t \o suffix_hml

\* C5 amended: the derivation holds when the prefix contains exactly one '-',
\* as its last character, t contains no '-', and suffix_prd is empty or starts
\* with '-' (the name being the trimmed output of the current-branch query).
HyphenLast(pfx) == Len(Split(pfx, "-")) = 2 /\ Split(pfx, "-")[2] = <<>>

C5_ResolveHyphenScheme ==
    \A t \in Tickets :
        ( /\ BranchRead
          /\ branch_name = prefix \o t \o suffix_prd
          /\ HyphenLast(prefix)
          /\ Len(Split(t, "-")) = 1
          /\ suffix_prd = <<>> \/ Head(suffix_prd) = "-" )
            => /\ prd_branch = prefix \o t \o suffix_prd
               /\ hml_branch = prefix \o t \o suffix_hml
               /\ error \notin {"doesn't match the expected format",
                                "doesn't start with the expected prefix"}

C5_Witness ==
    /\ pc = "prd_exists"
    /\ config.prefix # None
    /\ HyphenLast(prefix)
    /\ branch_name = prefix \o <<"7">> \o suffix_prd
    /\ prd_branch = branch_name
    /\ hml_branch = prefix \o <<"7">> \o suffix_hml

\* C6: a branch name that does not start with the prefix, or has fewer than
\* two '-' components, makes pick fail with the invalid-branch-format error
\* with no existence check, log query, prompt or cherry-pick issued.
C6_InvalidBranchFails ==
    ( /\ BranchRead
      /\ \/ ~StartsWith(branch_name, prefix)
         \/ Len(Split(branch_name, "-")) < 2 )
        => /\ pc = "failed"
           /\ result = "Err"
           /\ error \in {"doesn't match the expected format",
                         "doesn't start with the expected prefix"}
           /\ Len(calls) = 1
           /\ answer = "none"
           /\ printed = <<>> /\ messages = <<>>

C6_Witness ==
    /\ BranchRead
    /\ Len(Split(branch_name, "-")) >= 2
    /\ ~StartsWith(branch_name, prefix)
    /\ pc = "failed"
    /\ error = "doesn't start with the expected prefix"

\* C7: an external call that fails to start or exits non-zero is the last
\* thing pick does: the invocation has ended there and no later call or step
\* follows it.
C7_FailedCallStops ==
    \A i \in 1..Len(calls) :
        calls[i].st # "ok" => (i = Len(calls) /\ pc \in {"failed", "done"})

PcOrder == <<"load_config", "current_branch", "prd_exists", "hml_exists",
             "git_log", "get_current_user", "select", "present", "confirm",
             "rev_list", "cherry_pick", "end">>
PcRank(l) ==
    LET m == IF l \in {"done", "failed"} THEN "end" ELSE l
    IN  CHOOSE i \in 1..Len(PcOrder) : PcOrder[i] = m

C9_EmptySelection ==
    (SelectRan /\ final_lines = <<>>)
        => /\ pc = "done" /\ result = "Ok"
           /\ printed = <<>>
           /\ answer = "none"
           /\ ~Issued("rev-list --reverse") /\ ~Issued("cherry-pick --stdin")
           /\ messages = << IF args.latest THEN "No commits found for user"
                                          ELSE "No commits found between" >>

C9_Witness ==
    /\ SelectRan
    /\ final_lines = <<>>
    /\ args.latest
    /\ RawLines # <<>>
    /\ messages = <<"No commits found for user">>

\* C10: in every mode, a log line without the three fields gives no hash to
\* the candidates and is not replayed, and is printed verbatim where the
\* selection holds it; a well-formed line of the selection is printed as
\* hash | author | subject and gives exactly its hash.
C10_MalformedPassThrough ==
    (Issued("cherry-pick --stdin") /\ Ended("rev-list --reverse", "ok")) =>
        /\ \A j \in 1..Len(RawLines) :
               ~WellFormed(RawLines[j]) =>
                   /\ \A k \in 1..Len(replayed) : replayed[k] # RawCommit(j)
                   /\ \A k \in 1..Len(commit_hashes) : commit_hashes[k] # RawCommit(j)
        /\ Len(printed) = Len(final_lines)
        /\ \A i \in 1..Len(final_lines) :
               ~WellFormed(final_lines[i]) => printed[i] = final_lines[i]
        /\ \A i \in 1..Len(final_lines) :
               WellFormed(final_lines[i]) =>
                   LET f == Fields(final_lines[i])
                       a == Trim(f[2])
                   IN  /\ printed[i] = Trim(f[1]) \o SEP
                              \o (IF a = current_user THEN GREEN ELSE RED) \o a \o RESET
                              \o SEP \o Trim(f[3])
                       /\ Cardinality({k \in 1..Len(commit_hashes) :
                                          commit_hashes[k] = Trim(f[1])}) = 1

====
